---- MODULE Spec2Model ----
(***************************************************************************)
(* Model of the session construction core of ReflexEval AP                 *)
(* (session_factory.py): PlanConfig.from_params_schema, the three          *)
(* ReflectionSession variants, StandardSessionFactory, the in-memory       *)
(* config provider and SessionService.start_session.                       *)
(*                                                                         *)
(* Python lists and dicts are mutable objects that may be shared, so they  *)
(* live in a heap (a function from references to objects).  Integers,      *)
(* strings and floats are immutable and are held by value.  A float is     *)
(* held in hundredths (0.33 is 33, 1.0 is 100).  References are opaque:    *)
(* each thread of control allocates from a range of its own, so that the   *)
(* order in which threads allocate does not show in the references, and    *)
(* objects nothing refers to any more are collected.                       *)
(***************************************************************************)
EXTENDS Integers, Sequences, FiniteSets, TLC

VARIABLES
    heap,            \* the mutable objects: lists and dicts
    params_schema,   \* the schema dict the provider holds and hands to from_params_schema
    provided,        \* per plan id: outcome of InMemoryConfigProvider.get_plan_config
    plan_config,     \* the PlanConfig handed to the factory
    given_prompts,   \* contents of the list the PlanConfig's reflection_prompts was built with
    session,         \* the session last returned by create_session
    returned,        \* references returned by the build_questions calls on `session`
    touched,         \* indices into `returned` of the sequences the caller has mutated
    callers          \* per caller of SessionService.start_session: position and locals

vars == <<heap, params_schema, provided, plan_config, given_prompts,
          session, returned, touched, callers>>

----------------------------------------------------------------------------
(* Bounds of the model. *)

MaxParams == 2      \* descriptors in a schema's `params` list
MaxPrompts == 2     \* reflection prompts of a directly constructed PlanConfig
MaxSessions == 4    \* largest sessions_number of a directly constructed PlanConfig
MaxIndex == 5       \* largest session_index passed in
MaxBuilds == 2      \* build_questions calls on one session
NumCallers == 2     \* concurrent callers of start_session
ArenaSize == 10     \* references a thread can hold at a time

----------------------------------------------------------------------------
(* JSON / Python values.  t is the Python type; exactly one of i, s, r is  *)
(* meaningful: i for "int" (the integer) and "float" (hundredths), s for   *)
(* "str", r for "list" (a heap reference).  "absent" is a missing dict     *)
(* key, "null" is None.                                                    *)

Val(t, i, s, r) == [t |-> t, i |-> i, s |-> s, r |-> r]
Absent == Val("absent", 0, "", 0)
Null == Val("null", 0, "", 0)
IntV(n) == Val("int", n, "", 0)
FloatV(h) == Val("float", h, "", 0)
StrV(str) == Val("str", 0, str, 0)
ListV(ref) == Val("list", 0, "", ref)
BoolV(b) == Val("bool", IF b THEN 1 ELSE 0, "", 0)

EmptyDict == [k \in {} |-> 0]
ListObj(seq) == [kind |-> "list", list |-> seq, dict |-> EmptyDict]
DictObj(d) == [kind |-> "dict", list |-> <<>>, dict |-> d]

\* Allocation of a fresh object by thread th: the new heap and the new
\* reference (the first free one of the thread's range).
Fresh(h, th) ==
    CHOOSE r \in (th * ArenaSize + 1)..((th + 1) * ArenaSize) :
        /\ r \notin DOMAIN h
        /\ \A q \in (th * ArenaSize + 1)..(r - 1) : q \in DOMAIN h
Alloc(h, th, obj) == [heap |-> h @@ (Fresh(h, th) :> obj), ref |-> Fresh(h, th)]

\* Garbage collection: the heap restricted to the references still held.
Collect(h, held) == [r \in DOMAIN h \cap held |-> h[r]]

\* dict.get(key, default) on an optional field.
Get(field, default) == IF field.t = "absent" THEN default ELSE field

\* Decimal strings the model's schemas use, and what int()/float() parse them to.
DecimalStrings == {"1", "2", "3", "4", "5"}
ParseDecimal(str) ==
    CASE str = "1" -> 1 [] str = "2" -> 2 [] str = "3" -> 3
      [] str = "4" -> 4 [] str = "5" -> 5

\* Truncation towards zero of h hundredths, as int(float) does.
Trunc(h) == IF h >= 0 THEN h \div 100 ELSE -((-h) \div 100)

\* int(v): [raised, value].
PyInt(v) ==
    CASE v.t \in {"int", "bool"} -> [raised |-> "none", value |-> v.i]
      [] v.t = "float" -> [raised |-> "none", value |-> Trunc(v.i)]
      [] v.t = "str" /\ v.s \in DecimalStrings ->
            [raised |-> "none", value |-> ParseDecimal(v.s)]
      [] v.t = "str" /\ v.s \notin DecimalStrings ->
            [raised |-> "ValueError", value |-> 0]
      [] OTHER -> [raised |-> "TypeError", value |-> 0]

\* float(v): [raised, value], value in hundredths.
PyFloat(v) ==
    CASE v.t \in {"int", "bool"} -> [raised |-> "none", value |-> 100 * v.i]
      [] v.t = "float" -> [raised |-> "none", value |-> v.i]
      [] v.t = "str" /\ v.s \in DecimalStrings ->
            [raised |-> "none", value |-> 100 * ParseDecimal(v.s)]
      [] v.t = "str" /\ v.s \notin DecimalStrings ->
            [raised |-> "ValueError", value |-> 0]
      [] OTHER -> [raised |-> "TypeError", value |-> 0]

----------------------------------------------------------------------------
(* Schemas.  A descriptor is a dict with the optional keys name, default   *)
(* and items; an item is a dict with the optional keys name and weight.    *)
(* A schema is a dict with the optional key params.                        *)

Item(name, weight) == [name |-> name, weight |-> weight]
Descriptor(name, default, hasItems, items) ==
    [name |-> name, default |-> default, hasItems |-> hasItems, items |-> items]
Schema(hasParams, params) == [hasParams |-> hasParams, params |-> params]

NoDescriptor == Descriptor(Absent, Absent, FALSE, <<>>)

\* Lookup as it would be if the first descriptor of a name won.
RECURSIVE LookupFirst(_, _)
LookupFirst(params, name) ==
    IF params = <<>> THEN NoDescriptor
    ELSE IF Head(params).name = StrV(name) THEN Head(params)
    ELSE LookupFirst(Tail(params), name)

\* {p["name"]: p for p in params}: the descriptor stored under `name`
\* (the last one of that name), or NoDescriptor when there is none.
RECURSIVE Lookup(_, _)
Lookup(params, name) ==
    IF params = <<>> THEN NoDescriptor
    ELSE IF params[Len(params)].name = StrV(name) THEN params[Len(params)]
    ELSE Lookup(SubSeq(params, 1, Len(params) - 1), name)

\* p["name"] raises KeyError for a descriptor without a name.
IndexRaises(params) == \E k \in 1..Len(params) : params[k].name.t = "absent"

\* Weights as it would be with item["weight"] in place of item.get("weight", 1.0).
RECURSIVE WeightsStrict(_)
WeightsStrict(items) ==
    IF items = <<>> THEN [raised |-> "none", dict |-> EmptyDict]
    ELSE LET front == WeightsStrict(SubSeq(items, 1, Len(items) - 1))
             item == items[Len(items)]
             w == PyFloat(item.weight)
         IN  IF front.raised # "none" THEN front
             ELSE IF item.name.t = "absent" \/ item.weight.t = "absent"
                  THEN [raised |-> "KeyError", dict |-> EmptyDict]
             ELSE IF w.raised # "none"
                  THEN [raised |-> w.raised, dict |-> EmptyDict]
             ELSE [raised |-> "none",
                   dict |-> [k \in DOMAIN front.dict \cup {item.name.s} |->
                               IF k = item.name.s THEN w.value ELSE front.dict[k]]]

\* {item["name"]: float(item.get("weight", 1.0)) for item in items}:
\* [raised, dict], items evaluated in order, key before value.
RECURSIVE Weights(_)
Weights(items) ==
    IF items = <<>> THEN [raised |-> "none", dict |-> EmptyDict]
    ELSE LET front == Weights(SubSeq(items, 1, Len(items) - 1))
             item == items[Len(items)]
             w == PyFloat(Get(item.weight, FloatV(100)))
         IN  IF front.raised # "none" THEN front
             ELSE IF item.name.t = "absent"
                  THEN [raised |-> "KeyError", dict |-> EmptyDict]
             ELSE IF w.raised # "none"
                  THEN [raised |-> w.raised, dict |-> EmptyDict]
             ELSE [raised |-> "none",
                   dict |-> [k \in DOMAIN front.dict \cup {item.name.s} |->
                               IF k = item.name.s THEN w.value ELSE front.dict[k]]]

----------------------------------------------------------------------------
(* PlanConfig.  deadline_utc and reflection_prompts are stored as read     *)
(* from the schema, without conversion; criteria_weights is a reference to *)
(* the dict built by from_params_schema.                                   *)

DefaultSessionsNumber == 3
DefaultIntervalDays == 7
DefaultDeadline == "2099-12-31T23:59:00Z"

PlanConfig(plan_id, sn, days, deadline, weights, prompts) ==
    [plan_id |-> plan_id, sessions_number |-> sn,
     reflection_interval_days |-> days, deadline_utc |-> deadline,
     criteria_weights |-> weights, reflection_prompts |-> prompts]

NoConfig == PlanConfig("", 0, 0, Absent, 0, Absent)

\* The outcome of a call that builds a PlanConfig: the exception raised
\* ("none" when it returned), the PlanConfig, and the heap and the schema
\* dict as the call leaves them.
Outcome(raised, config, h, schema) ==
    [raised |-> raised, config |-> config, heap |-> h, params_schema |-> schema]

FromParamsSchema(plan_id, schema, h, th) ==
    LET params == IF schema.hasParams THEN schema.params ELSE <<>>
        sn == PyInt(Get(Lookup(params, "sessions_number").default,
                        IntV(DefaultSessionsNumber)))
        days == PyInt(Get(Lookup(params, "reflection_interval_days").default,
                          IntV(DefaultIntervalDays)))
        deadline == Get(Lookup(params, "deadline_utc").default, StrV(DefaultDeadline))
        criteria_param == Lookup(params, "criteria")
        items == IF criteria_param.hasItems THEN criteria_param.items ELSE <<>>
        weights == Weights(items)
        wobj == Alloc(h, th, DictObj(weights.dict))
        fresh == Alloc(wobj.heap, th, ListObj(<<>>))
        given == Lookup(params, "reflection_prompts").default
    IN  IF IndexRaises(params) THEN Outcome("KeyError", NoConfig, h, schema)
        ELSE IF sn.raised # "none" THEN Outcome(sn.raised, NoConfig, h, schema)
        ELSE IF days.raised # "none" THEN Outcome(days.raised, NoConfig, h, schema)
        ELSE IF weights.raised # "none" THEN Outcome(weights.raised, NoConfig, h, schema)
        ELSE IF given.t = "absent"
             THEN Outcome("none",
                          PlanConfig(plan_id, sn.value, days.value, deadline,
                                     wobj.ref, ListV(fresh.ref)),
                          fresh.heap, schema)
             ELSE Outcome("none",
                          PlanConfig(plan_id, sn.value, days.value, deadline,
                                     wobj.ref, given),
                          wobj.heap, schema)

\* get_plan_config as it would be if the provider kept the PlanConfig of one
\* plan and served it to every plan.
GetPlanConfigCached(plan_id, schema, h, th) == FromParamsSchema("demo-plan", schema, h, th)

\* InMemoryConfigProvider.get_plan_config: the provider's schema, whatever the plan.
GetPlanConfig(plan_id, schema, h, th) == FromParamsSchema(plan_id, schema, h, th)

\* The references a PlanConfig holds.
ConfigRefs(config) ==
    {config.criteria_weights} \cup
    (IF config.reflection_prompts.t = "list" THEN {config.reflection_prompts.r} ELSE {})

----------------------------------------------------------------------------
(* ReflectionSession and its three variants.                               *)

Session(variant, config, session_index) ==
    [variant |-> variant, plan_config |-> config, session_index |-> session_index]

NoSession == Session("none", NoConfig, 0)

get_session_type(s) ==
    CASE s.variant = "Initial" -> "initial"
      [] s.variant = "Intermediate" -> "intermediate"
      [] s.variant = "Final" -> "final"

build_title(s) ==
    CASE s.variant = "Initial" -> "Reflexão inicial"
      [] s.variant = "Intermediate" -> "Reflexão intermédia #" \o ToString(s.session_index)
      [] s.variant = "Final" -> "Reflexão final e autoavaliação"

build_intro(s) ==
    CASE s.variant = "Initial" ->
            "Esta é a primeira sessão de reflexão. Regista expectativas, ponto de partida e objetivos pessoais."
      [] s.variant = "Intermediate" ->
            "Sessão de reflexão intermédia. Foca-te nas dificuldades recentes e na evolução desde a última sessão."
      [] s.variant = "Final" ->
            "Última sessão de reflexão. Sintetiza o teu percurso, evidências de aprendizagem e autoavaliação final."

ExtraQuestions ==
    << "Que evidências concretas mostram a tua evolução ao longo da unidade curricular?",
       "Se repetisses a unidade curricular, o que farias de forma diferente?" >>

\* build_questions as it would be without list(...): the plan's own list.
BaseBuildQuestionsAlias(s, h, th) ==
    LET prompts == s.plan_config.reflection_prompts
    IN  IF prompts.t = "list"
        THEN [raised |-> "none", ref |-> prompts.r, heap |-> h]
        ELSE [raised |-> "TypeError", ref |-> 0, heap |-> h]

\* ReflectionSession.build_questions: list(self.plan_config.reflection_prompts),
\* a new list with the same elements.  [raised, ref, heap].
BaseBuildQuestions(s, h, th) ==
    LET prompts == s.plan_config.reflection_prompts
        copy == Alloc(h, th, ListObj(h[prompts.r].list))
    IN  IF prompts.t = "list"
        THEN [raised |-> "none", ref |-> copy.ref, heap |-> copy.heap]
        ELSE [raised |-> "TypeError", ref |-> 0, heap |-> h]

\* The final variant's build_questions as it would be with extra + base.
FinalBuildQuestionsPrepend(s, h, th) ==
    LET prompts == s.plan_config.reflection_prompts
        sum == Alloc(h, th, ListObj(ExtraQuestions \o h[prompts.r].list))
    IN  IF prompts.t = "list"
        THEN [raised |-> "none", ref |-> sum.ref, heap |-> sum.heap]
        ELSE [raised |-> "TypeError", ref |-> 0, heap |-> h]

\* FinalReflectionSession.build_questions: base + extra, a new list; base and
\* extra themselves are dropped on return.
FinalBuildQuestions(s, h, th) ==
    LET base == BaseBuildQuestions(s, h, th)
        sum == Alloc(h, th, ListObj(base.heap[base.ref].list \o ExtraQuestions))
    IN  IF base.raised # "none" THEN base
        ELSE [raised |-> "none", ref |-> sum.ref, heap |-> sum.heap]

build_questions(s, h, th) ==
    IF s.variant = "Final" THEN FinalBuildQuestions(s, h, th)
    ELSE BaseBuildQuestions(s, h, th)

ViewModel(plan_id, session_index, session_type, title, intro, questions, weights) ==
    [plan_id |-> plan_id, session_index |-> session_index,
     session_type |-> session_type, title |-> title, intro |-> intro,
     questions |-> questions, criteria_weights |-> weights]

NoViewModel == ViewModel("", 0, "", "", "", 0, 0)

\* to_view_model as it would be with title and intro the wrong way round.
to_view_model_swapped(s, h, th) ==
    LET q == build_questions(s, h, th)
    IN  IF q.raised # "none"
        THEN [raised |-> q.raised, vm |-> NoViewModel, heap |-> h]
        ELSE [raised |-> "none",
              vm |-> ViewModel(s.plan_config.plan_id, s.session_index,
                               get_session_type(s), build_intro(s), build_title(s),
                               q.ref, s.plan_config.criteria_weights),
              heap |-> q.heap]

\* to_view_model as it would be with questions=self.plan_config.reflection_prompts.
to_view_model_direct(s, h, th) ==
    IF s.plan_config.reflection_prompts.t # "list"
    THEN [raised |-> "TypeError", vm |-> NoViewModel, heap |-> h]
    ELSE [raised |-> "none",
          vm |-> ViewModel(s.plan_config.plan_id, s.session_index,
                           get_session_type(s), build_title(s), build_intro(s),
                           s.plan_config.reflection_prompts.r,
                           s.plan_config.criteria_weights),
          heap |-> h]

\* ReflectionSession.to_view_model: [raised, vm, heap].
to_view_model(s, h, th) ==
    LET q == build_questions(s, h, th)
    IN  IF q.raised # "none"
        THEN [raised |-> q.raised, vm |-> NoViewModel, heap |-> h]
        ELSE [raised |-> "none",
              vm |-> ViewModel(s.plan_config.plan_id, s.session_index,
                               get_session_type(s), build_title(s), build_intro(s),
                               q.ref, s.plan_config.criteria_weights),
              heap |-> q.heap]

\* create_session as it would be with `<` in the first test.
create_session_lt(config, session_index) ==
    IF session_index < 1 THEN Session("Initial", config, session_index)
    ELSE IF session_index < config.sessions_number
         THEN Session("Intermediate", config, session_index)
    ELSE Session("Final", config, session_index)

\* create_session as it would be with `<=` in the second test.
create_session_le(config, session_index) ==
    IF session_index <= 1 THEN Session("Initial", config, session_index)
    ELSE IF session_index <= config.sessions_number
         THEN Session("Intermediate", config, session_index)
    ELSE Session("Final", config, session_index)

\* create_session as it would be with the two tests in the other order.
create_session_swapped(config, session_index) ==
    IF session_index < config.sessions_number
    THEN Session("Intermediate", config, session_index)
    ELSE IF session_index <= 1 THEN Session("Initial", config, session_index)
    ELSE Session("Final", config, session_index)

\* StandardSessionFactory.create_session.
create_session(config, session_index) ==
    IF session_index <= 1 THEN Session("Initial", config, session_index)
    ELSE IF session_index < config.sessions_number
         THEN Session("Intermediate", config, session_index)
    ELSE Session("Final", config, session_index)

----------------------------------------------------------------------------
(* The schema of app.py and the schemas the model draws from.              *)

PlanIds == {"demo-plan", "p1"}

\* The heap before any call: the list literal of the schema's reflection_prompts.
AppPromptsRef == 1
AppPrompts ==
    << "O que aprendi desde a última sessão?",
       "Quais foram as maiores dificuldades?",
       "Que evidências mostram a minha evolução?" >>
InitHeap == (AppPromptsRef :> ListObj(AppPrompts))

Named(name, default) == Descriptor(StrV(name), default, FALSE, <<>>)
Criteria(items) == Descriptor(StrV("criteria"), Absent, TRUE, items)

\* PARAMS_SCHEMA with sessions_number.default = n.
AppSchemaWith(n) ==
    Schema(TRUE,
        << Criteria(<< Item(StrV("empenho"), FloatV(33)),
                       Item(StrV("dominio"), FloatV(34)),
                       Item(StrV("autonomia"), FloatV(33)) >>),
           Named("sessions_number", IntV(n)),
           Named("reflection_interval_days", IntV(7)),
           Named("deadline_utc", StrV("2025-12-20T23:59:00Z")),
           Named("allow_revisions", BoolV(TRUE)),
           Named("reflection_prompts", ListV(AppPromptsRef)),
           Named("comment_enabled", BoolV(TRUE)),
           Named("consent_qualitative_analysis", BoolV(TRUE)),
           Named("locale", StrV("pt-PT")) >>)

PARAMS_SCHEMA == AppSchemaWith(3)

\* Descriptors for the schemas handed to from_params_schema: each parameter
\* with and without its default, criteria with and without items and weights,
\* and the malformed ones (no name, a default or weight that is no number).
DescriptorPool ==
    { Named("sessions_number", IntV(5)),
      Named("sessions_number", StrV("4")),
      Named("sessions_number", StrV("abc")),
      Named("sessions_number", Absent),
      Named("reflection_interval_days", IntV(14)),
      Named("reflection_interval_days", FloatV(250)),
      Named("deadline_utc", StrV("2025-12-20T23:59:00Z")),
      Named("deadline_utc", Absent),
      Descriptor(StrV("criteria"), Absent, FALSE, <<>>),
      Criteria(<< Item(StrV("empenho"), FloatV(33)), Item(StrV("dominio"), Absent) >>),
      Criteria(<< Item(Absent, FloatV(33)) >>),
      Criteria(<< Item(StrV("empenho"), Null) >>),
      Named("reflection_prompts", ListV(AppPromptsRef)),
      Named("reflection_prompts", Absent),
      Descriptor(Absent, IntV(5), FALSE, <<>>) }

RECURSIVE SeqsUpTo(_, _)
SeqsUpTo(S, n) ==
    IF n = 0 THEN {<<>>}
    ELSE LET shorter == SeqsUpTo(S, n - 1)
         IN  shorter \cup {Append(s, x) : s \in shorter, x \in S}

Schemas ==
    {Schema(FALSE, <<>>), PARAMS_SCHEMA, AppSchemaWith(5)}
    \cup {Schema(TRUE, s) : s \in SeqsUpTo(DescriptorPool, MaxParams)}

\* The list references a schema holds.
SchemaRefs(schema) ==
    {schema.params[k].default.r :
        k \in {j \in 1..Len(schema.params) : schema.params[j].default.t = "list"}}

----------------------------------------------------------------------------
(* Callers of the core.                                                    *)

Callers == 1..NumCallers
\* The thread of a single caller: the first of Callers.
MainThread == CHOOSE c \in Callers : \A d \in Callers : c <= d

\* What a call left behind: "unset" before any call, else the exception
\* raised ("none" when it returned) and the PlanConfig returned.
Result(raised, config) == [raised |-> raised, config |-> config]
Unset == Result("unset", NoConfig)
ResultRefs(r) == IF r.raised = "none" THEN ConfigRefs(r.config) ELSE {}

\* A caller of start_session: its position, its arguments and its locals.
Caller(pc, plan_id, session_index, config, s, vm, edited_q, edited_w) ==
    [pc |-> pc, plan_id |-> plan_id, session_index |-> session_index,
     plan_config |-> config, session |-> s, vm |-> vm,
     edited_questions |-> edited_q, edited_weights |-> edited_w]
IdleCaller == Caller("idle", "", 0, NoConfig, NoSession, NoViewModel, FALSE, FALSE)

CallerRefs(c) ==
    (IF c.pc \in {"have_config", "have_session"} THEN ConfigRefs(c.plan_config) ELSE {})
    \cup (IF c.pc = "returned" THEN {c.vm.questions, c.vm.criteria_weights} ELSE {})

----------------------------------------------------------------------------
(* Specification SpecConfig: PlanConfig.from_params_schema and the         *)
(* provider's get_plan_config on every schema of Schemas.                  *)

FactoryIdle ==
    /\ plan_config = NoConfig
    /\ given_prompts = <<>>
    /\ session = NoSession
    /\ returned = <<>>
    /\ touched = {}

InitConfig ==
    /\ heap = InitHeap
    /\ params_schema \in Schemas
    /\ provided = [p \in PlanIds |-> Unset]
    /\ FactoryIdle
    /\ callers = [c \in Callers |-> IdleCaller]

ConfigHeld(schema, prov) ==
    {AppPromptsRef} \cup SchemaRefs(schema)
    \cup UNION {ResultRefs(prov[p]) : p \in PlanIds}

\* provider.get_plan_config(p) on the provider built with params_schema, which
\* is PlanConfig.from_params_schema(p, params_schema).
GetPlanConfigCall(p) ==
    LET o == GetPlanConfig(p, params_schema, heap, MainThread)
    IN  /\ provided' = [provided EXCEPT ![p] = Result(o.raised, o.config)]
        /\ params_schema' = o.params_schema
        /\ heap' = Collect(o.heap, ConfigHeld(params_schema', provided'))
        /\ UNCHANGED <<plan_config, given_prompts, session, returned, touched, callers>>

NextConfig == \E p \in PlanIds : GetPlanConfigCall(p)

SpecConfig == InitConfig /\ [][NextConfig]_vars

----------------------------------------------------------------------------
(* Properties of PlanConfig construction (SpecConfig).                     *)

ParamsOf(schema) == IF schema.hasParams THEN schema.params ELSE <<>>

\* The last descriptor of `params` named `name`, or NoDescriptor.
LastNamed(params, name) ==
    LET ks == {k \in 1..Len(params) : params[k].name = StrV(name)}
    IN  IF ks = {} THEN NoDescriptor
        ELSE params[CHOOSE k \in ks : \A j \in ks : j <= k]

Returned(p) == provided[p].raised = "none"

\* C5: from_params_schema takes sessions_number, reflection_interval_days,
\* deadline_utc and reflection_prompts from the default of the (last) descriptor
\* of that name (the two integers through int(): "4" is 4 and 2.5 is 2), and
\* falls back to 3, 7, "2099-12-31T23:59:00Z", no weights and no prompts when
\* the default, the descriptor or the criteria items are missing;
\* sessions_number.default = 5 gives 5 and no such parameter gives 3.
C5_DefaultsAndFallbacks ==
    \A p \in PlanIds : Returned(p) =>
        LET cfg == provided[p].config
            params == ParamsOf(params_schema)
            sn == LastNamed(params, "sessions_number").default
            days == LastNamed(params, "reflection_interval_days").default
            deadline == LastNamed(params, "deadline_utc").default
            prompts == LastNamed(params, "reflection_prompts").default
            criteria == LastNamed(params, "criteria")
        IN  /\ sn.t = "int" => cfg.sessions_number = sn.i
            /\ sn = StrV("4") => cfg.sessions_number = 4
            /\ sn.t = "absent" => cfg.sessions_number = 3
            /\ days.t = "int" => cfg.reflection_interval_days = days.i
            /\ days = FloatV(250) => cfg.reflection_interval_days = 2
            /\ days.t = "absent" => cfg.reflection_interval_days = 7
            /\ deadline.t # "absent" => cfg.deadline_utc = deadline
            /\ deadline.t = "absent" => cfg.deadline_utc = StrV("2099-12-31T23:59:00Z")
            /\ prompts.t # "absent" => cfg.reflection_prompts = prompts
            /\ prompts.t = "absent" =>
                   /\ cfg.reflection_prompts.t = "list"
                   /\ heap[cfg.reflection_prompts.r] = ListObj(<<>>)
            /\ ~criteria.hasItems => heap[cfg.criteria_weights] = DictObj(EmptyDict)
            /\ params_schema = AppSchemaWith(5) => cfg.sessions_number = 5
            /\ params_schema = Schema(TRUE, <<Named("deadline_utc", Absent)>>) =>
                   cfg.sessions_number = 3

\* A schema with sessions_number.default = 5 and nothing else was converted.
C5_Witness ==
    /\ params_schema = Schema(TRUE, <<Named("sessions_number", IntV(5))>>)
    /\ Returned("p1")
    /\ provided["p1"].config.sessions_number = 5
    /\ provided["p1"].config.reflection_interval_days = 7
    /\ heap[provided["p1"].config.reflection_prompts.r] = ListObj(<<>>)

\* The contents of a PlanConfig, references followed, plan_id left out.
Content(cfg) ==
    [sessions_number |-> cfg.sessions_number,
     reflection_interval_days |-> cfg.reflection_interval_days,
     deadline_utc |-> cfg.deadline_utc,
     criteria_weights |-> heap[cfg.criteria_weights].dict,
     reflection_prompts |-> heap[cfg.reflection_prompts.r].list]

\* C8: get_plan_config ignores plan_id for the content: the PlanConfigs of any
\* two plans agree on everything but plan_id, which is the identifier passed in.
C8_PlanIdOnlyThreaded ==
    \A p, q \in PlanIds : (Returned(p) /\ Returned(q)) =>
        /\ provided[p].config.plan_id = p
        /\ provided[q].config.plan_id = q
        /\ Content(provided[p].config) = Content(provided[q].config)

\* Both plans were served from the schema of app.py.
C8_Witness ==
    /\ params_schema = PARAMS_SCHEMA
    /\ Returned("demo-plan") /\ Returned("p1")
    /\ provided["demo-plan"].config.plan_id # provided["p1"].config.plan_id
    /\ provided["demo-plan"].config.criteria_weights # provided["p1"].config.criteria_weights
    /\ Content(provided["p1"].config).criteria_weights["dominio"] = 34

\* A schema all of whose present fields are well-formed: every descriptor and
\* every item has a name, the integer defaults are integers and the weights
\* are numbers.  Whatever is missing is one of: params, a descriptor, a
\* default, items, a weight.
OnlyAbsences(schema) ==
    \A k \in 1..Len(ParamsOf(schema)) :
        LET d == ParamsOf(schema)[k]
        IN  /\ d.name.t = "str"
            /\ d.name.s \in {"sessions_number", "reflection_interval_days"} =>
                   d.default.t \in {"absent", "int"}
            /\ d.name.s = "reflection_prompts" => d.default.t \in {"absent", "list"}
            /\ \A j \in 1..Len(d.items) :
                   /\ d.items[j].name.t = "str"
                   /\ d.items[j].weight.t \in {"absent", "int", "float"}

C9_Returns ==
    \A p \in PlanIds : (provided[p] # Unset /\ OnlyAbsences(params_schema)) =>
        /\ Returned(p)
        /\ LET items == LastNamed(ParamsOf(params_schema), "criteria").items
               weights == heap[provided[p].config.criteria_weights].dict
           IN  \A j \in 1..Len(items) :
                   (\A i \in j..Len(items) :
                        items[i].name = items[j].name => items[i].weight.t = "absent")
                   => weights[items[j].name.s] = 100

\* C9: from_params_schema has no error outcome when fields are absent: on a
\* schema that lacks any of params, a descriptor, a default, the criteria items
\* or an item's weight it returns a PlanConfig, a missing weight being 1.0, and
\* it leaves the schema (its dict and its prompts list) as it was.
C9_TotalOnAbsentFields ==
    /\ []C9_Returns
    /\ [][/\ params_schema' = params_schema
          /\ heap'[AppPromptsRef] = heap[AppPromptsRef]]_vars

\* A schema whose second criterion has no weight was converted.
C9_Witness ==
    /\ params_schema = Schema(TRUE,
           << Criteria(<< Item(StrV("empenho"), FloatV(33)),
                          Item(StrV("dominio"), Absent) >>) >>)
    /\ Returned("demo-plan")
    /\ heap[provided["demo-plan"].config.criteria_weights].dict =
           [k \in {"empenho", "dominio"} |-> IF k = "empenho" THEN 33 ELSE 100]

----------------------------------------------------------------------------
(* Specification SpecFactory: create_session and build_questions on a      *)
(* PlanConfig constructed directly, and a caller that mutates the lists    *)
(* build_questions returned.                                               *)

MinIndex == 0 - 1
Indices == MinIndex..MaxIndex
SessionCounts == MinIndex..MaxSessions

PromptLists == SeqsUpTo({AppPrompts[1], AppPrompts[2]}, MaxPrompts) \cup {AppPrompts}

AppWeights == [k \in {"empenho", "dominio", "autonomia"} |-> IF k = "dominio" THEN 34 ELSE 33]
GivenPromptsRef == 1
GivenWeightsRef == 2

ServiceIdle ==
    /\ params_schema = Schema(FALSE, <<>>)
    /\ provided = [p \in PlanIds |-> Unset]
    /\ callers = [c \in Callers |-> IdleCaller]

InitFactory ==
    /\ given_prompts \in PromptLists
    /\ heap = (GivenPromptsRef :> ListObj(given_prompts))
              @@ (GivenWeightsRef :> DictObj(AppWeights))
    /\ \E n \in SessionCounts :
           plan_config = PlanConfig("demo-plan", n, 7, StrV("2025-12-20T23:59:00Z"),
                                    GivenWeightsRef, ListV(GivenPromptsRef))
    /\ session = NoSession
    /\ returned = <<>>
    /\ touched = {}
    /\ ServiceIdle

\* session = factory.create_session(plan_config, i); what the previous
\* session's build_questions returned is dropped.
CreateSession(i) ==
    /\ session' = create_session(plan_config, i)
    /\ returned' = <<>>
    /\ touched' = {}
    /\ heap' = Collect(heap, ConfigRefs(plan_config))
    /\ UNCHANGED <<params_schema, provided, plan_config, given_prompts, callers>>

\* returned.append(session.build_questions())
BuildQuestions ==
    /\ session # NoSession
    /\ Len(returned) < MaxBuilds
    /\ LET q == build_questions(session, heap, MainThread)
       IN  /\ returned' = IF q.raised = "none" THEN Append(returned, q.ref) ELSE returned
           /\ heap' = q.heap
    /\ UNCHANGED <<params_schema, provided, plan_config, given_prompts, session,
                   touched, callers>>

\* What a caller can do to a list: append, remove the last element, overwrite
\* the first.
ListOps == {"append", "remove", "overwrite"}
CanEdit(seq, op) == op = "append" \/ seq # <<>>
EditList(seq, op) ==
    CASE op = "append" -> Append(seq, "mutated")
      [] op = "remove" -> SubSeq(seq, 1, Len(seq) - 1)
      [] op = "overwrite" -> [seq EXCEPT ![1] = "mutated"]

\* The caller mutates the k-th list it was returned.
MutateReturned(k, op) ==
    /\ k \in 1..Len(returned)
    /\ k \notin touched
    /\ CanEdit(heap[returned[k]].list, op)
    /\ heap' = [heap EXCEPT ![returned[k]] = ListObj(EditList(@.list, op))]
    /\ touched' = touched \cup {k}
    /\ UNCHANGED <<params_schema, provided, plan_config, given_prompts, session,
                   returned, callers>>

NextFactory ==
    \/ \E i \in Indices : CreateSession(i)
    \/ BuildQuestions
    \/ \E k \in 1..MaxBuilds, op \in ListOps : MutateReturned(k, op)

SpecFactory == InitFactory /\ [][NextFactory]_vars

----------------------------------------------------------------------------
(* Properties of the factory and of the variants (SpecFactory).            *)

Created == session # NoSession
Index == session.session_index
Count == session.plan_config.sessions_number
Type == get_session_type(session)

\* C1: create_session follows the first-match rule for every index and every
\* sessions_number: initial whenever session_index <= 1, intermediate whenever
\* 1 < session_index < sessions_number, and it always returns a session; with
\* sessions_number = 3, indices 0 and 1 give initial, 2 gives intermediate and
\* 3, 4, ... give final.
C1_FirstMatchRule ==
    /\ session.variant \in {"none", "Initial", "Intermediate", "Final"}
    /\ Created =>
        /\ Type \in {"initial", "intermediate", "final"}
        /\ session.plan_config = plan_config
        /\ Index <= 1 => Type = "initial"
        /\ (1 < Index /\ Index < Count) => Type = "intermediate"
        /\ (Count = 3 /\ Index \in {0, 1}) => Type = "initial"
        /\ (Count = 3 /\ Index = 2) => Type = "intermediate"
        /\ (Count = 3 /\ Index >= 3) => Type = "final"

\* Index 1 of a plan whose sessions_number is not positive is initial.
C1_Witness ==
    /\ Created /\ Index = 1 /\ Count = MinIndex /\ Type = "initial"

\* C2 as claimed: for sessions_number >= 1, every session_index >= sessions_number
\* gives a final session.
C2_FinalFromCount ==
    (Created /\ Count >= 1 /\ Index >= Count) => Type = "final"

\* C2 as amended: for sessions_number >= 1, every session_index >= sessions_number
\* that is greater than 1 gives a final session; session_index = 1 with
\* sessions_number = 1 gives an initial session.
C2_FinalFromCountAboveOne ==
    /\ (Created /\ Count >= 1 /\ Index >= Count /\ Index > 1) => Type = "final"
    /\ (Created /\ Count = 1 /\ Index = 1) => Type = "initial"

\* The index equal to a sessions_number above 1 is final.
C2_Witness ==
    /\ Created /\ Count = 2 /\ Index = Count /\ Type = "final"

Rank(s) ==
    CASE s.variant = "Initial" -> 1
      [] s.variant = "Intermediate" -> 2
      [] s.variant = "Final" -> 3

C10_Range ==
    (Created /\ Type = "intermediate") =>
        /\ Count >= 3
        /\ 2 <= Index /\ Index <= Count - 1
        /\ \E n \in 2..(Count - 1) :
               build_title(session) = "Reflexão intermédia #" \o ToString(n)

\* C10: for a fixed sessions_number the variant never moves backwards as the
\* index grows (initial, intermediate, final), and an intermediate session is
\* produced only for sessions_number >= 3 and 2 <= session_index <=
\* sessions_number - 1, which is the number its title carries.
C10_MonotoneAndRange ==
    /\ []C10_Range
    /\ [][(Created /\ session' # NoSession /\ Index <= session'.session_index)
             => Rank(session) <= Rank(session')]_vars

\* The last intermediate index of a plan with four sessions.
C10_Witness ==
    /\ Created /\ Count = 4 /\ Index = 3 /\ Type = "intermediate"
    /\ build_title(session) = "Reflexão intermédia #3"

\* What build_questions of `session` is to return for the prompts the plan was
\* built with.
Expected ==
    IF Type = "final"
    THEN given_prompts \o
         << "Que evidências concretas mostram a tua evolução ao longo da unidade curricular?",
            "Se repetisses a unidade curricular, o que farias de forma diferente?" >>
    ELSE given_prompts

Untouched == {k \in 1..Len(returned) : k \notin touched}

\* C3: the final variant's questions are the plan's prompts, in order, followed
\* by the two synthesis questions, in order: len(reflection_prompts) + 2
\* entries; the initial and intermediate variants return the prompts unmodified.
C3_QuestionsOfVariant ==
    \A k \in Untouched :
        LET q == heap[returned[k]].list
            n == Len(given_prompts)
        IN  /\ Type = "final" =>
                /\ Len(q) = n + 2
                /\ SubSeq(q, 1, n) = given_prompts
                /\ q[n + 1] = "Que evidências concretas mostram a tua evolução ao longo da unidade curricular?"
                /\ q[n + 2] = "Se repetisses a unidade curricular, o que farias de forma diferente?"
            /\ Type \in {"initial", "intermediate"} => q = given_prompts

\* A final session built the five questions of the app's three prompts.
C3_Witness ==
    /\ Created /\ Type = "final" /\ given_prompts = AppPrompts
    /\ 1 \in Untouched
    /\ Len(heap[returned[1]].list) = 5

\* C4: build_questions leaves plan_config.reflection_prompts unchanged and each
\* call returns a sequence of its own: whatever the caller does to one returned
\* sequence, the other and the plan's prompts keep their contents.
C4_IndependentCopies ==
    /\ plan_config.reflection_prompts = ListV(GivenPromptsRef)
    /\ heap[GivenPromptsRef].list = given_prompts
    /\ \A k \in 1..Len(returned) :
           /\ returned[k] # GivenPromptsRef
           /\ \A j \in 1..Len(returned) : j # k => returned[j] # returned[k]
    /\ touched # {} => \A k \in Untouched : heap[returned[k]].list = Expected

\* Of two sequences an intermediate session returned, the first was mutated.
C4_Witness ==
    /\ Created /\ Type = "intermediate"
    /\ Len(returned) = 2 /\ touched = {1}
    /\ heap[returned[1]].list # given_prompts
    /\ heap[returned[2]].list = given_prompts

----------------------------------------------------------------------------
(* SessionService.start_session, statement by statement, for each caller;  *)
(* the caller then owns the view model and may mutate its questions and    *)
(* its criteria_weights.                                                   *)

ServiceHeld(schema, cs) ==
    {AppPromptsRef} \cup SchemaRefs(schema) \cup UNION {CallerRefs(cs[c]) : c \in Callers}

\* Caller c calls start_session(p, i):
\* plan_config = self._config_provider.get_plan_config(plan_id)
ObtainConfig(c, p, i) ==
    /\ callers[c].pc = "idle"
    /\ LET o == GetPlanConfig(p, params_schema, heap, c)
       IN  /\ callers' = [callers EXCEPT ![c] =
                  IF o.raised = "none"
                  THEN Caller("have_config", p, i, o.config, NoSession, NoViewModel,
                              FALSE, FALSE)
                  ELSE Caller("raised", p, i, NoConfig, NoSession, NoViewModel,
                              FALSE, FALSE)]
           /\ params_schema' = o.params_schema
           /\ heap' = Collect(o.heap, ServiceHeld(params_schema', callers'))
    /\ UNCHANGED <<provided, plan_config, given_prompts, session, returned, touched>>

\* session = self._factory.create_session(plan_config, session_index)
MakeSession(c) ==
    /\ callers[c].pc = "have_config"
    /\ callers' = [callers EXCEPT ![c] =
           [@ EXCEPT !.pc = "have_session",
                     !.session = create_session(callers[c].plan_config,
                                                callers[c].session_index)]]
    /\ UNCHANGED <<heap, params_schema, provided, plan_config, given_prompts, session,
                   returned, touched>>

\* return session.to_view_model()
ReturnViewModel(c) ==
    /\ callers[c].pc = "have_session"
    /\ LET r == to_view_model(callers[c].session, heap, c)
       IN  /\ callers' = [callers EXCEPT ![c] =
                  Caller(IF r.raised = "none" THEN "returned" ELSE "raised",
                         @.plan_id, @.session_index, NoConfig, NoSession, r.vm,
                         FALSE, FALSE)]
           /\ heap' = Collect(r.heap, ServiceHeld(params_schema, callers'))
    /\ UNCHANGED <<params_schema, provided, plan_config, given_prompts, session,
                   returned, touched>>

\* The caller mutates the questions of the view model it holds.
EditQuestions(c, op) ==
    /\ callers[c].pc = "returned"
    /\ ~callers[c].edited_questions
    /\ CanEdit(heap[callers[c].vm.questions].list, op)
    /\ heap' = [heap EXCEPT ![callers[c].vm.questions] = ListObj(EditList(@.list, op))]
    /\ callers' = [callers EXCEPT ![c].edited_questions = TRUE]
    /\ UNCHANGED <<params_schema, provided, plan_config, given_prompts, session,
                   returned, touched>>

\* The caller mutates the criteria_weights of the view model it holds:
\* vm.criteria_weights["empenho"] = 0.0
EditWeights(c) ==
    /\ callers[c].pc = "returned"
    /\ ~callers[c].edited_weights
    /\ heap' = [heap EXCEPT ![callers[c].vm.criteria_weights] =
                   DictObj([k \in DOMAIN @.dict \cup {"empenho"} |->
                               IF k = "empenho" THEN 0 ELSE @.dict[k]])]
    /\ callers' = [callers EXCEPT ![c].edited_weights = TRUE]
    /\ UNCHANGED <<params_schema, provided, plan_config, given_prompts, session,
                   returned, touched>>

\* The caller drops the view model (or the exception) and may call again.
Release(c) ==
    /\ callers[c].pc \in {"returned", "raised"}
    /\ callers' = [callers EXCEPT ![c] = IdleCaller]
    /\ heap' = Collect(heap, ServiceHeld(params_schema, callers'))
    /\ UNCHANGED <<params_schema, provided, plan_config, given_prompts, session,
                   returned, touched>>

CallerOps == {"append", "remove"}

----------------------------------------------------------------------------
(* Specification SpecService: one caller, every plan, every index, the     *)
(* schema of app.py with each sessions_number and the schema without       *)
(* params.                                                                 *)

ServiceSchemas == {AppSchemaWith(n) : n \in 1..MaxSessions} \cup {Schema(FALSE, <<>>)}

InitService ==
    /\ heap = InitHeap
    /\ params_schema \in ServiceSchemas
    /\ provided = [p \in PlanIds |-> Unset]
    /\ FactoryIdle
    /\ callers = [c \in Callers |-> IdleCaller]

NextService ==
    \/ \E p \in PlanIds, i \in Indices : ObtainConfig(MainThread, p, i)
    \/ MakeSession(MainThread)
    \/ ReturnViewModel(MainThread)
    \/ \E op \in CallerOps : EditQuestions(MainThread, op)
    \/ EditWeights(MainThread)
    \/ Release(MainThread)

SpecService == InitService /\ [][NextService]_vars

----------------------------------------------------------------------------
(* Specification SpecConcurrent: several callers on one SessionService,    *)
(* their start_session calls and their mutations interleaved in any order. *)

ConcurrentSchemas == {PARAMS_SCHEMA, Schema(FALSE, <<>>)}
ConcurrentIndices == 1..DefaultSessionsNumber

InitConcurrent ==
    /\ heap = InitHeap
    /\ params_schema \in ConcurrentSchemas
    /\ provided = [p \in PlanIds |-> Unset]
    /\ FactoryIdle
    /\ callers = [c \in Callers |-> IdleCaller]

NextConcurrent ==
    \E c \in Callers :
        \/ \E p \in PlanIds, i \in ConcurrentIndices : ObtainConfig(c, p, i)
        \/ MakeSession(c)
        \/ ReturnViewModel(c)
        \/ \E op \in CallerOps : EditQuestions(c, op)
        \/ EditWeights(c)
        \/ Release(c)

SpecConcurrent == InitConcurrent /\ [][NextConcurrent]_vars

----------------------------------------------------------------------------
(* Properties of start_session (SpecService, SpecConcurrent).              *)

\* What the provider's schema holds: its sessions_number (3 when it has
\* none), its prompts and its weights.
SchemaCount ==
    LET d == LastNamed(ParamsOf(params_schema), "sessions_number").default
    IN  IF d.t = "int" THEN d.i ELSE 3
SchemaPrompts == IF params_schema.hasParams THEN AppPrompts ELSE <<>>
SchemaWeights == IF params_schema.hasParams THEN AppWeights ELSE EmptyDict

TypeFor(i, n) ==
    IF i <= 1 THEN "initial" ELSE IF i < n THEN "intermediate" ELSE "final"

TitleFor(type, i) ==
    CASE type = "initial" -> "Reflexão inicial"
      [] type = "intermediate" -> "Reflexão intermédia #" \o ToString(i)
      [] type = "final" -> "Reflexão final e autoavaliação"

IntroFor(type) ==
    CASE type = "initial" ->
            "Esta é a primeira sessão de reflexão. Regista expectativas, ponto de partida e objetivos pessoais."
      [] type = "intermediate" ->
            "Sessão de reflexão intermédia. Foca-te nas dificuldades recentes e na evolução desde a última sessão."
      [] type = "final" ->
            "Última sessão de reflexão. Sintetiza o teu percurso, evidências de aprendizagem e autoavaliação final."

QuestionsFor(type) ==
    IF type = "final"
    THEN SchemaPrompts \o
         << "Que evidências concretas mostram a tua evolução ao longo da unidade curricular?",
            "Se repetisses a unidade curricular, o que farias de forma diferente?" >>
    ELSE SchemaPrompts

\* C6: start_session returns a view model with the plan_id and session_index it
\* was given, the session_type, title, intro and questions of the variant the
\* factory selects for the provider's PlanConfig and that index, and the
\* PlanConfig's criteria_weights; with the schema of app.py,
\* start_session("demo-plan", 1) is "initial", titled "Reflexão inicial", with
\* the three prompts, and start_session("demo-plan", 3) is "final" with 5
\* questions.
C6_ViewModelOfSelectedVariant ==
    LET c == callers[MainThread]
        vm == c.vm
        type == TypeFor(c.session_index, SchemaCount)
    IN  c.pc = "returned" =>
            /\ vm.plan_id = c.plan_id
            /\ vm.session_index = c.session_index
            /\ vm.session_type = type
            /\ vm.title = TitleFor(type, c.session_index)
            /\ vm.intro = IntroFor(type)
            /\ ~c.edited_questions => heap[vm.questions].list = QuestionsFor(type)
            /\ ~c.edited_weights => heap[vm.criteria_weights].dict = SchemaWeights
            /\ (params_schema = PARAMS_SCHEMA /\ c.plan_id = "demo-plan"
                  /\ c.session_index = 1) =>
                   /\ vm.session_type = "initial"
                   /\ vm.title = "Reflexão inicial"
                   /\ ~c.edited_questions => heap[vm.questions].list = AppPrompts
            /\ (params_schema = PARAMS_SCHEMA /\ c.plan_id = "demo-plan"
                  /\ c.session_index = 3) =>
                   /\ vm.session_type = "final"
                   /\ ~c.edited_questions => Len(heap[vm.questions].list) = 5

\* start_session("demo-plan", 3) returned on the schema of app.py.
C6_Witness ==
    /\ params_schema = PARAMS_SCHEMA
    /\ callers[MainThread].pc = "returned"
    /\ callers[MainThread].plan_id = "demo-plan"
    /\ callers[MainThread].session_index = 3
    /\ callers[MainThread].vm.session_type = "final"
    /\ Len(heap[callers[MainThread].vm.questions].list) = 5

\* A view model with its references followed.
Deref(vm, h) ==
    [plan_id |-> vm.plan_id, session_index |-> vm.session_index,
     session_type |-> vm.session_type, title |-> vm.title, intro |-> vm.intro,
     questions |-> h[vm.questions].list,
     criteria_weights |-> h[vm.criteria_weights].dict]

\* start_session(p, i) run alone on a fresh service with the provider's schema.
Alone(p, i) ==
    LET o == GetPlanConfig(p, params_schema, InitHeap, MainThread)
        r == to_view_model(create_session(o.config, i), o.heap, MainThread)
    IN  Deref(r.vm, r.heap)

C7_Isolated ==
    /\ heap[AppPromptsRef] = ListObj(AppPrompts)
    /\ \A c \in Callers : callers[c].pc = "returned" =>
           LET mine == Deref(callers[c].vm, heap)
               alone == Alone(callers[c].plan_id, callers[c].session_index)
           IN  /\ ~callers[c].edited_questions => mine.questions = alone.questions
               /\ ~callers[c].edited_weights =>
                      mine.criteria_weights = alone.criteria_weights
               /\ [mine EXCEPT !.questions = <<>>, !.criteria_weights = EmptyDict]
                    = [alone EXCEPT !.questions = <<>>, !.criteria_weights = EmptyDict]

\* C7: start_session calls share no mutable state: however the calls of several
\* callers interleave, and whatever callers do to the questions and the
\* criteria_weights of the view models they hold, the provider's schema stays
\* as it was and every call returns what it returns when run alone on a fresh
\* service.
C7_NoSharedMutableState ==
    /\ []C7_Isolated
    /\ [][params_schema' = params_schema]_vars

\* Two callers hold the view model of the same call; one has mutated both its
\* questions and its weights, the other has not touched its own.
C7_Witness ==
    /\ params_schema = PARAMS_SCHEMA
    /\ callers[1].pc = "returned" /\ callers[2].pc = "returned"
    /\ callers[1].plan_id = callers[2].plan_id
    /\ callers[1].session_index = 3 /\ callers[2].session_index = 3
    /\ callers[1].edited_questions /\ callers[1].edited_weights
    /\ ~callers[2].edited_questions /\ ~callers[2].edited_weights
    /\ Deref(callers[1].vm, heap).questions # Deref(callers[2].vm, heap).questions
    /\ Deref(callers[1].vm, heap).criteria_weights["empenho"] = 0
    /\ Deref(callers[2].vm, heap).criteria_weights["empenho"] = 33

====
